---- MODULE Spec2Model ----
(***************************************************************************)
(* State-machine model of DataScraper (src/scraper.py): the page fetcher   *)
(* _fetch_page with its retry loop, the record extractor _parse_page /     *)
(* _parse_book / _get_next_page_url, the category walker scrape_category   *)
(* and the orchestrator scrape_multiple_categories.                        *)
(*                                                                         *)
(* Every coroutine is a frame of variables with a program counter.  Each   *)
(* action is the code that runs between two awaits of that coroutine.      *)
(* Variables whose name ends in "trace" or "_before" are history           *)
(* variables: they record what a frame did and are read by no action.      *)
(***************************************************************************)
EXTENDS Integers, Sequences, FiniteSets, TLC

(***************************************************************************)
(* Bounds of the explored inputs.                                          *)
(***************************************************************************)
MaxRetries == 3        \* retries of a direct _fetch_page call: 0..MaxRetries
MaxFetchCalls == 2     \* direct _fetch_page calls on one DataScraper
WalkMaxRetries == 1    \* scraper_config.max_retries in the walker runs
MaxPages == 3          \* max_pages of a walk: 0..MaxPages

(***************************************************************************)
(* Optional[T]: None is the empty sequence, a value x is <<x>>.            *)
(***************************************************************************)
None == <<>>
Some(x) == <<x>>

(***************************************************************************)
(* Text is a sequence of characters; str.strip() / get_text(strip=True)    *)
(* removes the leading and trailing blanks.                                *)
(***************************************************************************)
RECURSIVE LStrip(_)
LStrip(s) == IF s # <<>> /\ Head(s) = " " THEN LStrip(Tail(s)) ELSE s

RECURSIVE RStrip(_)
RStrip(s) == IF s # <<>> /\ s[Len(s)] = " " THEN RStrip(SubSeq(s, 1, Len(s) - 1)) ELSE s

Strip(s) == RStrip(LStrip(s))

(***************************************************************************)
(* str(n) of a natural number: its decimal digits.                         *)
(***************************************************************************)
RECURSIVE str(_)
str(n) == IF n < 10 THEN <<n>> ELSE str(n \div 10) \o <<n % 10>>

(***************************************************************************)
(* Markup.  A document is the sequence of its top-level nodes; the empty   *)
(* document is the empty string.  A node is                                *)
(*   tag      "product"  a div.single-product container                    *)
(*            "next"     the pagination anchor ul.pagination li a[rel=next]*)
(*            "text"     any other markup                                  *)
(*            "rejected" markup on which the HTML parser raises            *)
(*   href     path segments of the node's first link, <<>> when it has no  *)
(*            link or an empty href                                        *)
(*   has_title, title    whether "h3 a" matches, and its raw text          *)
(*   poison   a selector call on the element raises                        *)
(***************************************************************************)
Product(href, has_title, title, poison) ==
    [tag |-> "product", href |-> href, has_title |-> has_title, title |-> title, poison |-> poison]

NextLink(href) ==
    [tag |-> "next", href |-> href, has_title |-> FALSE, title |-> <<>>, poison |-> FALSE]

Text == [tag |-> "text", href |-> <<>>, has_title |-> FALSE, title |-> <<>>, poison |-> FALSE]

Rejected == [tag |-> "rejected", href |-> <<>>, has_title |-> FALSE, title |-> <<>>, poison |-> FALSE]

Dune == Product(<<"p", "dune">>, TRUE, <<"D">>, FALSE)
Emma == Product(<<"p", "emma">>, TRUE, <<" ", "E", " ">>, FALSE)
Blank == Product(<<"p", "blank">>, TRUE, <<" ">>, FALSE)
Untitled == Product(<<"p", "untitled">>, FALSE, <<>>, FALSE)
Poison == Product(<<"p", "poison">>, TRUE, <<"P">>, TRUE)
Fiction == Product(<<"c", "fiction">>, TRUE, <<"F">>, FALSE)
More == NextLink(<<"index.php", "more">>)

(***************************************************************************)
(* The documents the site may serve with a 200 answer.                     *)
(***************************************************************************)
Bodies ==
    { <<>>,                          \* 200 with an empty body
      <<Dune, Emma, More>>,          \* two records and a next page
      <<Blank, Dune, More>>,         \* a blank title, one record, a next page
      <<Poison, Emma>>,              \* a raising element, one record, last page
      <<Dune>>,                      \* one record, last page
      <<Fiction, Untitled, More>>,   \* no record, yet a next page
      <<Text>>,                      \* no candidate at all
      <<Dune, Rejected>> }           \* the parser rejects the markup

OtherStatuses == {404, 503}

(***************************************************************************)
(* State.                                                                  *)
(***************************************************************************)
VARIABLES
    scraper_config,   \* self.scraper_config: max_pages, delay_between_requests, max_retries,
                      \* timeout, output_format, concurrent_requests
    errors,           \* self.errors
    calls,            \* number of calls made on this DataScraper from outside
    \* frame of _fetch_page
    fpc,              \* "idle", "loop" (at the head of the for loop), "returned"
    url,              \* argument url
    retries,          \* local retries, after the default was applied
    attempt,          \* loop variable
    content,          \* the value returned: None or Some(document)
    ftrace,           \* history: the GETs and sleeps of this call, in order
    errors_before,    \* history: Len(self.errors) when the call started
    \* frame of scrape_category
    wpc,              \* "idle", "loop", "fetching", "returned", "raised"
    category_name,
    category_param,
    max_pages,        \* local max_pages, after the default was applied
    current_page,
    books,
    wtrace,           \* history: the pages fetched by this walk and what each gave
    gets,             \* history: the GET requests of the fetches consumed by a walk that was
                      \* called directly or by run_scraper
    \* frame of scrape_multiple_categories
    mpc,              \* "idle", "awaiting", "returned"
    categories,       \* argument: the (name, param) items in insertion order
    multi_max_pages,  \* argument max_pages: None or Some(n)
    task,             \* index into tasks of the coroutine being awaited
    results,          \* the (name, books) items of the dict results, in insertion order
    mtrace,           \* history: the page fetches and finished walks of this call, in order
    \* frame of run_scraper
    rpc,              \* "idle", "walking", "returned", "raised"
    run_category,     \* argument category_name
    run_max_pages,    \* argument max_pages: None or Some(n)
    result,           \* the ScrapingResult returned: None or Some(report)
    files,            \* the files written to output_directory, in order
    files_before,     \* history: Len(files) when the call started
    run_errors_before,\* history: Len(self.errors) when the call started
    run_fetched,      \* history: number of pages the walk of this call fetched
    \* main.py, before the DataScraper is constructed
    cli_pc,           \* "none" (no command line), "parsed", "configured"
    args              \* the argparse namespace

configVars == <<scraper_config>>
fetchVars == <<fpc, url, retries, attempt, content, ftrace, errors_before>>
walkVars == <<wpc, category_name, category_param, max_pages, current_page, books, wtrace, gets>>
multiVars == <<mpc, categories, multi_max_pages, task, results, mtrace>>
runVars == <<rpc, run_category, run_max_pages, result, files, files_before, run_errors_before,
            run_fetched>>
cliVars == <<cli_pc, args>>
vars == <<scraper_config, errors, calls, fetchVars, walkVars, multiVars, runVars, cliVars>>

NoUrl == [base |-> <<>>, query |-> <<>>]

\* the namespace of a program that was not started from the command line
NoArgs ==
    [max_pages |-> 0, delay |-> 0, retries |-> 0, timeout |-> 0, concurrent |-> 0,
     output_format |-> ""]

(***************************************************************************)
(* DataScraper.__init__                                                    *)
(***************************************************************************)
Constructed ==
    /\ errors = <<>>
    /\ calls = 0
    /\ fpc = "idle" /\ url = NoUrl /\ retries = 0 /\ attempt = 0
    /\ content = None /\ ftrace = <<>> /\ errors_before = 0
    /\ wpc = "idle" /\ category_name = "" /\ category_param = "" /\ max_pages = 0
    /\ current_page = 0 /\ books = <<>> /\ wtrace = <<>> /\ gets = 0
    /\ rpc = "idle" /\ run_category = "" /\ run_max_pages = None /\ result = None
    /\ files = <<>> /\ files_before = 0 /\ run_errors_before = 0 /\ run_fetched = 0
    /\ mpc = "idle" /\ categories = <<>> /\ multi_max_pages = None /\ task = 0 /\ results = <<>> /\ mtrace = <<>>

(***************************************************************************)
(* _build_category_url: the query parameters in the order urlencode emits  *)
(* them.                                                                   *)
(***************************************************************************)
base_url == <<"https:", "www.periplus.com", "index.php">>

_build_category_url(param, page) ==
    [base |-> base_url,
     query |-> << <<"route", "product/category">>, <<"anl", param>> >>
                  \o (IF page > 1 THEN << <<"page", str(page)>> >> ELSE <<>>)]

(***************************************************************************)
(* _fetch_page                                                             *)
(***************************************************************************)
\* range(retries + 1)
AttemptRange_one_more(r) == 0 .. r + 1

AttemptRange(r) == 0 .. r

\* 2 ** attempt
Backoff_linear(a) == 2 * a

Backoff(a) == 2 ^ a

\* the except branch records the failure only on the last attempt
IsLastAttempt_every(a, r) == a <= r

IsLastAttempt(a, r) == a = r

\* history events: a GET with the status answered (NoResponse when it raised)
\* and the document read from a 200 answer; a sleep with its duration
NoResponse == 0
Get(a, status, body) == [ev |-> "get", attempt |-> a, status |-> status, body |-> body, seconds |-> 0]
Sleep(a, s) == [ev |-> "sleep", attempt |-> a, status |-> NoResponse, body |-> <<>>, seconds |-> s]

FetchError(a, u) == [kind |-> "fetch", attempt |-> a + 1, url |-> u, category |-> ""]

\* entering the coroutine: arguments bound, default applied, loop not yet started
FetchEnter_extra_retry(u, r) ==
    /\ fpc' = "loop"
    /\ url' = u
    /\ retries' = (IF r = None THEN scraper_config.max_retries ELSE r[1]) + 1
    /\ attempt' = 0
    /\ content' = None
    /\ ftrace' = <<>>
    /\ errors_before' = Len(errors)

FetchEnter(u, r) ==
    /\ fpc' = "loop"
    /\ url' = u
    /\ retries' = IF r = None THEN scraper_config.max_retries ELSE r[1]
    /\ attempt' = 0
    /\ content' = None
    /\ ftrace' = <<>>
    /\ errors_before' = Len(errors)

\* response.status == 200: the body is read and returned
Fetch200_no_return ==
    /\ fpc = "loop"
    /\ attempt \in AttemptRange(retries)
    /\ \E body \in Bodies :
        /\ content' = Some(body)
        /\ ftrace' = Append(ftrace, Get(attempt, 200, body))
    /\ attempt' = attempt + 1
    /\ UNCHANGED <<fpc, url, retries, errors_before>>
    /\ UNCHANGED <<configVars, runVars, cliVars, errors, calls, walkVars, multiVars>>

Fetch200 ==
    /\ fpc = "loop"
    /\ attempt \in AttemptRange(retries)
    /\ \E body \in Bodies :
        /\ content' = Some(body)
        /\ ftrace' = Append(ftrace, Get(attempt, 200, body))
    /\ fpc' = "returned"
    /\ UNCHANGED <<url, retries, attempt, errors_before>>
    /\ UNCHANGED <<configVars, runVars, cliVars, errors, calls, walkVars, multiVars>>

\* response.status == 429: sleep 2 ** attempt, then the next iteration
Fetch429_no_count ==
    /\ fpc = "loop"
    /\ attempt \in AttemptRange(retries)
    /\ ftrace' = ftrace \o <<Get(attempt, 429, <<>>), Sleep(attempt, Backoff(attempt))>>
    /\ UNCHANGED <<fpc, url, retries, attempt, content, errors_before>>
    /\ UNCHANGED <<configVars, runVars, cliVars, errors, calls, walkVars, multiVars>>

Fetch429 ==
    /\ fpc = "loop"
    /\ attempt \in AttemptRange(retries)
    /\ ftrace' = ftrace \o <<Get(attempt, 429, <<>>), Sleep(attempt, Backoff(attempt))>>
    /\ attempt' = attempt + 1
    /\ UNCHANGED <<fpc, url, retries, content, errors_before>>
    /\ UNCHANGED <<configVars, runVars, cliVars, errors, calls, walkVars, multiVars>>

\* any other status: a warning is logged, then the next iteration
FetchOtherStatus ==
    /\ fpc = "loop"
    /\ attempt \in AttemptRange(retries)
    /\ \E s \in OtherStatuses : ftrace' = Append(ftrace, Get(attempt, s, <<>>))
    /\ attempt' = attempt + 1
    /\ UNCHANGED <<fpc, url, retries, content, errors_before>>
    /\ UNCHANGED <<configVars, runVars, cliVars, errors, calls, walkVars, multiVars>>

FetchException_reset ==
    /\ fpc = "loop"
    /\ attempt \in AttemptRange(retries)
    /\ IF IsLastAttempt(attempt, retries)
       THEN /\ errors' = <<FetchError(attempt, url)>>
            /\ ftrace' = Append(ftrace, Get(attempt, NoResponse, <<>>))
       ELSE /\ errors' = errors
            /\ ftrace' = ftrace \o <<Get(attempt, NoResponse, <<>>), Sleep(attempt, Backoff(attempt))>>
    /\ attempt' = attempt + 1
    /\ UNCHANGED <<fpc, url, retries, content, errors_before>>
    /\ UNCHANGED <<configVars, runVars, cliVars, calls, walkVars, multiVars>>

\* session.get or response.text() raises (connection error, timeout, a body
\* that cannot be read): whatever the status line was, the attempt got no
\* response it could use and the except branch runs
FetchException ==
    /\ fpc = "loop"
    /\ attempt \in AttemptRange(retries)
    /\ IF IsLastAttempt(attempt, retries)
       THEN /\ errors' = Append(errors, FetchError(attempt, url))
            /\ ftrace' = Append(ftrace, Get(attempt, NoResponse, <<>>))
       ELSE /\ errors' = errors
            /\ ftrace' = ftrace \o <<Get(attempt, NoResponse, <<>>), Sleep(attempt, Backoff(attempt))>>
    /\ attempt' = attempt + 1
    /\ UNCHANGED <<fpc, url, retries, content, errors_before>>
    /\ UNCHANGED <<configVars, runVars, cliVars, calls, walkVars, multiVars>>

\* the for loop is exhausted: return None
FetchExhausted ==
    /\ fpc = "loop"
    /\ attempt \notin AttemptRange(retries)
    /\ content' = None
    /\ fpc' = "returned"
    /\ UNCHANGED <<url, retries, attempt, ftrace, errors_before>>
    /\ UNCHANGED <<configVars, runVars, cliVars, errors, calls, walkVars, multiVars>>

(***************************************************************************)
(* Direct calls of _fetch_page on a constructed DataScraper.               *)
(***************************************************************************)
CallFetchPage ==
    /\ fpc \in {"idle", "returned"}
    /\ wpc = "idle" /\ mpc = "idle"
    /\ calls < MaxFetchCalls
    /\ calls' = calls + 1
    /\ \E r \in {None} \cup {Some(n) : n \in 0 .. MaxRetries} :
        FetchEnter(_build_category_url("103", 1), r)
    /\ UNCHANGED <<configVars, runVars, cliVars, errors, walkVars, multiVars>>

InitFetch ==
    /\ Constructed
    /\ cli_pc = "none" /\ args = NoArgs
    /\ scraper_config \in [max_pages : {1}, delay_between_requests : {0}, max_retries : 0 .. MaxRetries,
                           timeout : {30}, output_format : {"json"}, concurrent_requests : {5}]

NextFetch == CallFetchPage \/ Fetch200 \/ Fetch429 \/ FetchOtherStatus \/ FetchException \/ FetchExhausted

SpecFetch == InitFetch /\ [][NextFetch]_vars

(***************************************************************************)
(* Properties of _fetch_page.                                              *)
(***************************************************************************)
Gets(tr) == SelectSeq(tr, LAMBDA e : e.ev = "get")
Sleeps(tr) == SelectSeq(tr, LAMBDA e : e.ev = "sleep")
Answered200(tr) == \E i \in 1 .. Len(tr) : tr[i].ev = "get" /\ tr[i].status = 200
AllRaised(tr) == \A i \in 1 .. Len(tr) : tr[i].ev = "get" => tr[i].status = NoResponse
Statuses(tr) == {tr[i].status : i \in {j \in 1 .. Len(tr) : tr[j].ev = "get"}}

\* C1: one call of _fetch_page issues at most retries + 1 GET requests, the
\* k-th of them with attempt index k - 1, and a call that has returned without
\* any attempt answering 200 has issued exactly retries + 1 requests.
C1_AttemptBudget ==
    fpc # "idle" =>
        LET g == Gets(ftrace) IN
        /\ Len(g) <= retries + 1
        /\ \A k \in 1 .. Len(g) : g[k].attempt = k - 1
        /\ (fpc = "returned" /\ ~Answered200(ftrace)) => Len(g) = retries + 1

C1_Witness ==
    /\ fpc = "returned"
    /\ retries = 2
    /\ Statuses(ftrace) = {429, 503, NoResponse}
    /\ Len(Gets(ftrace)) = 3

\* C2: a call in which every attempt raised has, once returned, made exactly
\* retries + 1 attempts, returns None and has made the error list exactly one
\* entry longer than it was when the call started.
C2_AllAttemptsRaise ==
    (fpc = "returned" /\ AllRaised(ftrace)) =>
        /\ Len(Gets(ftrace)) = retries + 1
        /\ content = None
        /\ Len(errors) = errors_before + 1

C2_Witness ==
    /\ fpc = "returned"
    /\ retries = 3
    /\ AllRaised(ftrace)
    /\ Len(Gets(ftrace)) = 4
    /\ errors_before = 1
    /\ Len(errors) = 2

\* C3: an attempt answered with 200 is the last event of its call: the call
\* has returned that attempt's body, no request and no sleep follows it, and
\* the error list is as long as it was when the call started.
C3_SuccessEndsCall ==
    \A i \in 1 .. Len(ftrace) :
        (ftrace[i].ev = "get" /\ ftrace[i].status = 200) =>
            /\ i = Len(ftrace)
            /\ fpc = "returned"
            /\ content = Some(ftrace[i].body)
            /\ Len(errors) = errors_before

C3_Witness ==
    /\ fpc = "returned"
    /\ Len(Gets(ftrace)) = 3
    /\ ftrace[Len(ftrace)].status = 200
    /\ Sleeps(ftrace) # <<>>
    /\ content = Some(<<Dune, Emma, More>>)
    /\ retries = 3

\* C4: a call that gave up after spending all its attempts on failures (429,
\* another non-200 status, an exception, in any mix) has made the error list
\* longer than it was when the call started.
C4_ExhaustionRecorded ==
    (fpc = "returned" /\ ~Answered200(ftrace) /\ Len(Gets(ftrace)) = retries + 1) =>
        Len(errors) > errors_before

(***************************************************************************)
(* Record extractor: _parse_book, _parse_page, _get_next_page_url.         *)
(* A Book is its title and category; the optional fields author, price,    *)
(* image_url, product_url and availability are copied from the element and *)
(* read by nothing in the walk.                                            *)
(***************************************************************************)
ParseError == [kind |-> "parse", attempt |-> 0, url |-> NoUrl, category |-> ""]

\* '/p/' in href
HasProductMarker(href) == \E i \in 1 .. Len(href) - 1 : href[i] = "p"

\* the filter of _parse_page: a container whose first link has an href with /p/
IsActualBook(e) == e.tag = "product" /\ e.href # <<>> /\ HasProductMarker(e.href)

\* title_elem.get_text(strip=True) if title_elem else None
TitleOf(e) == IF e.has_title THEN Some(Strip(e.title)) ELSE None

\* `if title:` of _parse_book: None and the empty string are both falsy
HasTitle_not_none(title) == title # None

HasTitle(title) == title # None /\ title[1] # <<>>

\* _parse_book: the Book or None, and the entries it appends to self.errors
_parse_book(e, category) ==
    IF e.poison
    THEN [book |-> None, errors |-> <<ParseError>>]
    ELSE LET title == TitleOf(e) IN
         IF HasTitle(title)
         THEN [book |-> Some([title |-> title[1], category |-> category]), errors |-> <<>>]
         ELSE [book |-> None, errors |-> <<>>]

\* the loop of _parse_page over actual_books
RECURSIVE ParseBooks_abort(_, _)
ParseBooks_abort(elems, category) ==
    IF elems = <<>>
    THEN [books |-> <<>>, errors |-> <<>>]
    ELSE LET b == _parse_book(Head(elems), category) IN
         IF b.errors # <<>>
         THEN [books |-> <<>>, errors |-> b.errors]
         ELSE LET rest == ParseBooks_abort(Tail(elems), category)
              IN [books |-> b.book \o rest.books, errors |-> rest.errors]

RECURSIVE ParseBooks(_, _)
ParseBooks(elems, category) ==
    IF elems = <<>>
    THEN [books |-> <<>>, errors |-> <<>>]
    ELSE LET b == _parse_book(Head(elems), category)
             rest == ParseBooks(Tail(elems), category)
         IN [books |-> b.book \o rest.books, errors |-> b.errors \o rest.errors]

\* BeautifulSoup(html_content, 'lxml') raises on markup the parser rejects
ParserRaises(html) == \E i \in 1 .. Len(html) : html[i].tag = "rejected"

\* _parse_page, for markup the parser accepts
_parse_page(html, category) == ParseBooks(SelectSeq(html, IsActualBook), category)

\* urljoin(base, ref) for a relative ref: the last segment of base is replaced
urljoin(base, ref) == SubSeq(base, 1, Len(base) - 1) \o ref

\* _get_next_page_url: href of the first pagination anchor, made absolute
_get_next_page_url_always(html) == Some(base_url)

_get_next_page_url(html) ==
    LET anchors == SelectSeq(html, LAMBDA e : e.tag = "next") IN
    IF anchors # <<>> /\ anchors[1].href # <<>>
    THEN Some(IF anchors[1].href[1] = "https:" THEN anchors[1].href
              ELSE urljoin(base_url, anchors[1].href))
    ELSE None

(***************************************************************************)
(* scrape_category                                                         *)
(***************************************************************************)
\* `while current_page <= max_pages`
WithinMaxPages_one_more(page, max) == page <= max + 1

WithinMaxPages(page, max) == page <= max

\* `if not html_content`: None and the empty string are both falsy
NotContent(c) == IF c = None THEN TRUE ELSE c[1] = <<>>

\* `if not page_books`
NoBooks_never(page_books) == FALSE

NoBooks(page_books) == page_books = <<>>

\* books.extend(page_books)
Extend_prepend(bs, page_books) == page_books \o bs

Extend(bs, page_books) == bs \o page_books

\* history events of a walk
WalkEvent(ev, page, page_books, html) ==
    [ev |-> ev, page |-> page, books |-> page_books, html |-> html]

\* entering the coroutine: arguments bound, default applied, locals initialised
WalkEnter(name, param, mp) ==
    /\ wpc' = "loop"
    /\ category_name' = name
    /\ category_param' = param
    /\ max_pages' = IF mp = None THEN scraper_config.max_pages ELSE mp[1]
    /\ books' = <<>>
    /\ current_page' = 1
    /\ wtrace' = <<>>
    /\ gets' = 0

\* `await self._fetch_page(url)` is over: its requests are added to the count
\* (walks awaited by scrape_multiple_categories are not counted)
CountedGets == IF mpc = "idle" THEN gets + Len(Gets(ftrace)) ELSE gets

\* the caller has taken the result of _fetch_page: its frame is gone
FetchLeave ==
    /\ fpc' = "idle" /\ url' = NoUrl /\ retries' = 0 /\ attempt' = 0
    /\ content' = None /\ ftrace' = <<>> /\ errors_before' = 0

\* the target of the pagination anchor of the page parsed last, as a URL
LinkTarget(tr) ==
    LET pages == SelectSeq(tr, LAMBDA e : e.ev = "page")
        next_url == _get_next_page_url(pages[Len(pages)].html)
    IN [base |-> next_url[1], query |-> <<>>]

\* loop test holds: build the URL and await _fetch_page(url)
ScrapeCategoryFetch_follow_link ==
    /\ wpc = "loop"
    /\ WithinMaxPages(current_page, max_pages)
    /\ FetchEnter(IF current_page > 1 THEN LinkTarget(wtrace)
                  ELSE _build_category_url(category_param, current_page), None)
    /\ wpc' = "fetching"
    /\ wtrace' = Append(wtrace, WalkEvent("fetch", current_page, <<>>, <<>>))
    /\ mtrace' = IF mpc = "awaiting"
                 THEN Append(mtrace, [ev |-> "fetch", category |-> category_name,
                                      page |-> current_page, books |-> <<>>])
                 ELSE mtrace
    /\ UNCHANGED <<category_name, category_param, max_pages, current_page, books, gets>>
    /\ UNCHANGED <<configVars, runVars, cliVars, errors, calls, mpc, categories, multi_max_pages, task, results>>

ScrapeCategoryFetch ==
    /\ wpc = "loop"
    /\ WithinMaxPages(current_page, max_pages)
    /\ FetchEnter(_build_category_url(category_param, current_page), None)
    /\ wpc' = "fetching"
    /\ wtrace' = Append(wtrace, WalkEvent("fetch", current_page, <<>>, <<>>))
    /\ mtrace' = IF mpc = "awaiting"
                 THEN Append(mtrace, [ev |-> "fetch", category |-> category_name,
                                      page |-> current_page, books |-> <<>>])
                 ELSE mtrace
    /\ UNCHANGED <<category_name, category_param, max_pages, current_page, books, gets>>
    /\ UNCHANGED <<configVars, runVars, cliVars, errors, calls, mpc, categories, multi_max_pages, task, results>>

\* loop test fails: return books
ScrapeCategoryDone ==
    /\ wpc = "loop"
    /\ ~WithinMaxPages(current_page, max_pages)
    /\ wpc' = "returned"
    /\ UNCHANGED <<category_name, category_param, max_pages, current_page, books, wtrace, gets>>
    /\ UNCHANGED <<configVars, runVars, cliVars, errors, calls, fetchVars, multiVars>>

\* _fetch_page returned nothing usable: break, return books
ScrapeCategoryFetchFailed_records_error ==
    /\ wpc = "fetching" /\ fpc = "returned"
    /\ NotContent(content)
    /\ FetchLeave
    /\ wpc' = "returned"
    /\ wtrace' = Append(wtrace, WalkEvent(IF content = None THEN "failed" ELSE "blank",
                                          current_page, <<>>, <<>>))
    /\ errors' = IF content = None THEN errors ELSE Append(errors, FetchError(0, url))
    /\ gets' = CountedGets
    /\ UNCHANGED <<category_name, category_param, max_pages, current_page, books>>
    /\ UNCHANGED <<configVars, runVars, cliVars, calls, multiVars>>

ScrapeCategoryFetchFailed ==
    /\ wpc = "fetching" /\ fpc = "returned"
    /\ NotContent(content)
    /\ FetchLeave
    /\ wpc' = "returned"
    /\ wtrace' = Append(wtrace, WalkEvent(IF content = None THEN "failed" ELSE "blank",
                                          current_page, <<>>, <<>>))
    /\ gets' = CountedGets
    /\ UNCHANGED <<category_name, category_param, max_pages, current_page, books>>
    /\ UNCHANGED <<configVars, runVars, cliVars, errors, calls, multiVars>>

\* _parse_page raises: the exception leaves scrape_category
ScrapeCategoryRaises ==
    /\ wpc = "fetching" /\ fpc = "returned"
    /\ ~NotContent(content)
    /\ ParserRaises(content[1])
    /\ FetchLeave
    /\ wpc' = "raised"
    /\ wtrace' = Append(wtrace, WalkEvent("raised", current_page, <<>>, <<>>))
    /\ gets' = CountedGets
    /\ UNCHANGED <<category_name, category_param, max_pages, current_page, books>>
    /\ UNCHANGED <<configVars, runVars, cliVars, errors, calls, multiVars>>

\* the page is parsed: stop on no books, extend, stop on no next page, else
\* advance the page counter and sleep the configured delay
ScrapeCategoryPage ==
    /\ wpc = "fetching" /\ fpc = "returned"
    /\ ~NotContent(content)
    /\ ~ParserRaises(content[1])
    /\ FetchLeave
    /\ LET parsed == _parse_page(content[1], category_name)
           page_books == parsed.books
           next_url == _get_next_page_url(content[1])
           seen == WalkEvent("page", current_page, page_books, content[1])
       IN
       /\ errors' = errors \o parsed.errors
       /\ IF NoBooks(page_books)
          THEN /\ wpc' = "returned"
               /\ wtrace' = wtrace \o <<seen, WalkEvent("empty", current_page, <<>>, <<>>)>>
               /\ UNCHANGED <<books, current_page>>
          ELSE /\ books' = Extend(books, page_books)
               /\ IF next_url = None
                  THEN /\ wpc' = "returned"
                       /\ wtrace' = wtrace \o <<seen, WalkEvent("last", current_page, <<>>, <<>>)>>
                       /\ UNCHANGED current_page
                  ELSE /\ wpc' = "loop"
                       /\ current_page' = current_page + 1
                       /\ wtrace' = wtrace \o <<seen, WalkEvent("next", current_page, <<>>, <<>>)>>
                                      \o (IF scraper_config.delay_between_requests > 0
                                          THEN <<WalkEvent("delay", current_page, <<>>, <<>>)>>
                                          ELSE <<>>)
    /\ gets' = CountedGets
    /\ UNCHANGED <<category_name, category_param, max_pages>>
    /\ UNCHANGED <<configVars, runVars, cliVars, calls, multiVars>>

(***************************************************************************)
(* A direct call of scrape_category on a constructed DataScraper.          *)
(***************************************************************************)
CallScrapeCategory ==
    /\ calls = 0
    /\ fpc = "idle" /\ wpc = "idle" /\ mpc = "idle"
    /\ calls' = calls + 1
    /\ \E mp \in {None} \cup {Some(n) : n \in 0 .. MaxPages} :
        WalkEnter("new_releases", "103", mp)
    /\ UNCHANGED <<configVars, runVars, cliVars, errors, fetchVars, multiVars>>

InitWalk ==
    /\ Constructed
    /\ cli_pc = "none" /\ args = NoArgs
    /\ scraper_config \in [max_pages : {2}, delay_between_requests : {0, 1},
                           max_retries : 0 .. WalkMaxRetries,
                           timeout : {30}, output_format : {"json"}, concurrent_requests : {5}]

NextWalk ==
    \/ CallScrapeCategory
    \/ ScrapeCategoryFetch \/ ScrapeCategoryDone
    \/ ScrapeCategoryFetchFailed \/ ScrapeCategoryRaises \/ ScrapeCategoryPage
    \/ Fetch200 \/ Fetch429 \/ FetchOtherStatus \/ FetchException \/ FetchExhausted

SpecWalk == InitWalk /\ [][NextWalk]_vars

(***************************************************************************)
(* scrape_multiple_categories                                              *)
(***************************************************************************)
NewReleases == <<"new_releases", "103">>
Bestsellers == <<"bestsellers", "104">>

\* the input mappings explored, as their items in insertion order
Mappings ==
    { <<>>, <<NewReleases>>, <<NewReleases, Bestsellers>>, <<Bestsellers, NewReleases>> }

CategoryError(name) == [kind |-> "category", attempt |-> 0, url |-> NoUrl, category |-> name]

\* the list tasks: one (category_name, coroutine) per item of categories.items()
Tasks_reversed(cats) == [i \in 1 .. Len(cats) |-> cats[Len(cats) + 1 - i]]

Tasks(cats) == cats

\* results[name] = value on a dict kept as its items in insertion order
DictSet(d, name, value) ==
    IF \E i \in 1 .. Len(d) : d[i][1] = name
    THEN [i \in 1 .. Len(d) |-> IF d[i][1] = name THEN <<name, value>> ELSE d[i]]
    ELSE Append(d, <<name, value>>)

Keys(d) == [i \in 1 .. Len(d) |-> d[i][1]]

\* the records of the pages parsed so far, in page order then in-page order
RECURSIVE PageBooks(_)
PageBooks(tr) ==
    IF tr = <<>> THEN <<>>
    ELSE (IF Head(tr).ev = "page" THEN Head(tr).books ELSE <<>>) \o PageBooks(Tail(tr))

\* history events of the orchestrator
MultiEvent(ev, name, page, page_books) ==
    [ev |-> ev, category |-> name, page |-> page, books |-> page_books]

\* the awaited coroutine is finished: its frame is gone
WalkLeave ==
    /\ wpc' = "idle" /\ category_name' = "" /\ category_param' = "" /\ max_pages' = 0
    /\ current_page' = 0 /\ books' = <<>> /\ wtrace' = <<>> /\ gets' = 0

\* the call: the coroutines are created, none has started
CallScrapeMultiple ==
    /\ calls = 0
    /\ fpc = "idle" /\ wpc = "idle" /\ mpc = "idle"
    /\ calls' = calls + 1
    /\ \E cats \in Mappings, mp \in {None} \cup {Some(n) : n \in 0 .. MaxPages} :
        /\ categories' = cats
        /\ multi_max_pages' = mp
        /\ mpc' = IF cats = <<>> THEN "returned" ELSE "awaiting"
    /\ task' = 1
    /\ results' = <<>>
    /\ mtrace' = <<>>
    /\ UNCHANGED <<configVars, runVars, cliVars, errors, fetchVars, walkVars>>

\* `await task`: the coroutine of the next item starts
MultiAwait ==
    /\ mpc = "awaiting" /\ wpc = "idle"
    /\ LET item == Tasks(categories)[task] IN WalkEnter(item[1], item[2], multi_max_pages)
    /\ UNCHANGED <<configVars, runVars, cliVars, errors, calls, fetchVars, multiVars>>

\* the awaited walk returned its books
MultiTaskReturned ==
    /\ mpc = "awaiting" /\ wpc = "returned"
    /\ LET name == Tasks(categories)[task][1] IN
        /\ results' = DictSet(results, name, books)
        /\ mtrace' = Append(mtrace, MultiEvent("returned", name, 0, PageBooks(wtrace)))
    /\ WalkLeave
    /\ task' = task + 1
    /\ mpc' = IF task = Len(categories) THEN "returned" ELSE "awaiting"
    /\ UNCHANGED <<categories, multi_max_pages>>
    /\ UNCHANGED <<configVars, runVars, cliVars, errors, calls, fetchVars>>

\* the awaited walk raised: the exception is logged, recorded and swallowed
MultiTaskRaised_no_entry ==
    /\ mpc = "awaiting" /\ wpc = "raised"
    /\ LET name == Tasks(categories)[task][1] IN
        /\ errors' = Append(errors, CategoryError(name))
        /\ results' = results
        /\ mtrace' = Append(mtrace, MultiEvent("raised", name, 0, PageBooks(wtrace)))
    /\ WalkLeave
    /\ task' = task + 1
    /\ mpc' = IF task = Len(categories) THEN "returned" ELSE "awaiting"
    /\ UNCHANGED <<categories, multi_max_pages>>
    /\ UNCHANGED <<configVars, runVars, cliVars, calls, fetchVars>>

MultiTaskRaised ==
    /\ mpc = "awaiting" /\ wpc = "raised"
    /\ LET name == Tasks(categories)[task][1] IN
        /\ errors' = Append(errors, CategoryError(name))
        /\ results' = DictSet(results, name, <<>>)
        /\ mtrace' = Append(mtrace, MultiEvent("raised", name, 0, PageBooks(wtrace)))
    /\ WalkLeave
    /\ task' = task + 1
    /\ mpc' = IF task = Len(categories) THEN "returned" ELSE "awaiting"
    /\ UNCHANGED <<categories, multi_max_pages>>
    /\ UNCHANGED <<configVars, runVars, cliVars, calls, fetchVars>>

Init ==
    /\ Constructed
    /\ cli_pc = "none" /\ args = NoArgs
    /\ scraper_config \in [max_pages : {2}, delay_between_requests : {0, 1},
                           max_retries : 0 .. WalkMaxRetries,
                           timeout : {30}, output_format : {"json"}, concurrent_requests : {5}]

Next ==
    \/ CallScrapeMultiple
    \/ MultiAwait \/ MultiTaskReturned \/ MultiTaskRaised
    \/ ScrapeCategoryFetch \/ ScrapeCategoryDone
    \/ ScrapeCategoryFetchFailed \/ ScrapeCategoryRaises \/ ScrapeCategoryPage
    \/ Fetch200 \/ Fetch429 \/ FetchOtherStatus \/ FetchException \/ FetchExhausted

Spec == Init /\ [][Next]_vars

(***************************************************************************)
(* Properties of scrape_category.                                          *)
(***************************************************************************)
FetchedPages(tr) == SelectSeq(tr, LAMBDA e : e.ev = "fetch")

ParsedPages(tr) == SelectSeq(tr, LAMBDA e : e.ev = "page")

\* the document holds a pagination anchor with a target
HasNextLocator(html) == \E i \in 1 .. Len(html) : html[i].tag = "next" /\ html[i].href # <<>>

\* C5: when the fetch of page k fails terminally the walk has stopped: nothing
\* follows the failure, the pages fetched are 1..k, and the walk returns the
\* records of pages 1..k-1 in page order then in-page order (none when k = 1).
C5_StopOnFetchFailure ==
    \A i \in 1 .. Len(wtrace) :
        wtrace[i].ev = "failed" =>
            /\ i = Len(wtrace)
            /\ wpc = "returned"
            /\ Len(FetchedPages(wtrace)) = wtrace[i].page
            /\ Len(ParsedPages(wtrace)) = wtrace[i].page - 1
            /\ books = PageBooks(wtrace)
            /\ (wtrace[i].page = 1 => books = <<>>)

C5_Witness ==
    /\ wpc = "returned"
    /\ wtrace # <<>>
    /\ wtrace[Len(wtrace)].ev = "failed"
    /\ wtrace[Len(wtrace)].page = 3
    /\ books = <<[title |-> <<"D">>, category |-> "new_releases"],
                 [title |-> <<"D">>, category |-> "new_releases"],
                 [title |-> <<"E">>, category |-> "new_releases"]>>

\* C6: a fetched page that yields zero records ends the walk at that page, also
\* when the page holds a next-page locator and is not the last allowed page.
C6_StopOnEmptyPage ==
    \A i \in 1 .. Len(wtrace) :
        (wtrace[i].ev = "page" /\ wtrace[i].books = <<>>) =>
            /\ i + 1 = Len(wtrace)
            /\ wtrace[i + 1].ev = "empty"
            /\ wpc = "returned"
            /\ Len(FetchedPages(wtrace)) = wtrace[i].page

C6_Witness ==
    /\ wpc = "returned"
    /\ Len(wtrace) > 1
    /\ wtrace[Len(wtrace) - 1].ev = "page"
    /\ wtrace[Len(wtrace) - 1].books = <<>>
    /\ HasNextLocator(wtrace[Len(wtrace) - 1].html)
    /\ wtrace[Len(wtrace) - 1].page = 2
    /\ max_pages > 2

\* C7: a page that yields records but has no next-page locator is the last page
\* fetched, and the walk returns the records of all pages up to it.
C7_StopOnLastPage ==
    \A i \in 1 .. Len(wtrace) :
        (wtrace[i].ev = "page" /\ wtrace[i].books # <<>> /\ ~HasNextLocator(wtrace[i].html)) =>
            /\ i + 1 = Len(wtrace)
            /\ wtrace[i + 1].ev = "last"
            /\ wpc = "returned"
            /\ Len(FetchedPages(wtrace)) = wtrace[i].page
            /\ books = PageBooks(wtrace)

C7_Witness ==
    /\ wpc = "returned"
    /\ max_pages = 3
    /\ wtrace # <<>>
    /\ wtrace[Len(wtrace)].ev = "last"
    /\ wtrace[Len(wtrace)].page = 2
    /\ books = <<[title |-> <<"D">>, category |-> "new_releases"],
                 [title |-> <<"E">>, category |-> "new_releases"],
                 [title |-> <<"E">>, category |-> "new_releases"]>>

\* C8: the k-th page fetch of a walk is the fetch of page k, no fetched page is
\* above max_pages, and the fetch of page N + 1 comes after page N was fetched
\* with a non-empty document that yielded a record and held a next-page locator.
C8_SequentialPages ==
    LET f == FetchedPages(wtrace) IN
    /\ \A k \in 1 .. Len(f) : f[k].page = k /\ k <= max_pages
    /\ \A i \in 1 .. Len(wtrace) :
        (wtrace[i].ev = "fetch" /\ wtrace[i].page > 1) =>
            \E j \in 1 .. i - 1 :
                /\ wtrace[j].ev = "page"
                /\ wtrace[j].page = wtrace[i].page - 1
                /\ wtrace[j].html # <<>>
                /\ wtrace[j].books # <<>>
                /\ HasNextLocator(wtrace[j].html)
                /\ \A m \in j + 1 .. i - 1 : wtrace[m].ev \in {"next", "delay"}

C8_Witness ==
    /\ wpc = "fetching"
    /\ max_pages = 3
    /\ current_page = 3
    /\ Len(FetchedPages(wtrace)) = 3

(***************************************************************************)
(* Properties of scrape_multiple_categories.                               *)
(***************************************************************************)
Finished(e) == e.ev \in {"returned", "raised"}

CatIndex(name) == CHOOSE i \in 1 .. Len(categories) : categories[i][1] = name

Lookup(d, name) == d[CHOOSE i \in 1 .. Len(d) : d[i][1] = name][2]

HasKey(d, name) == \E i \in 1 .. Len(d) : d[i][1] = name

KeySet(d) == {d[i][1] : i \in 1 .. Len(d)}

ErrorsNaming(name) == {j \in 1 .. Len(errors) : errors[j].kind = "category" /\ errors[j].category = name}

SomeWalkRaised == \E i \in 1 .. Len(mtrace) : mtrace[i].ev = "raised"

\* C9: when the walk of a category raised, the finished call has an empty entry
\* for that category and exactly one error entry naming it, every category of
\* the input was walked to its end, every category whose walk returned has the
\* records of all its parsed pages as its entry, and the result has the keys of
\* the input.
C9_CategoryIsolation ==
    (mpc = "returned" /\ SomeWalkRaised) =>
        /\ KeySet(results) = KeySet(categories)
        /\ Len(results) = Len(categories)
        /\ \A c \in KeySet(categories) :
            Cardinality({i \in 1 .. Len(mtrace) : Finished(mtrace[i]) /\ mtrace[i].category = c}) = 1
        /\ \A i \in 1 .. Len(mtrace) :
            /\ mtrace[i].ev = "raised" =>
                /\ HasKey(results, mtrace[i].category)
                /\ Lookup(results, mtrace[i].category) = <<>>
                /\ Cardinality(ErrorsNaming(mtrace[i].category)) = 1
            /\ mtrace[i].ev = "returned" =>
                /\ HasKey(results, mtrace[i].category)
                /\ Lookup(results, mtrace[i].category) = mtrace[i].books
                /\ ErrorsNaming(mtrace[i].category) = {}

C9_Witness ==
    /\ mpc = "returned"
    /\ categories = <<NewReleases, Bestsellers>>
    /\ Len(mtrace) > 3
    /\ mtrace[3].ev = "raised"
    /\ mtrace[3].category = "new_releases"
    /\ mtrace[3].books # <<>>
    /\ results = << <<"new_releases", <<>>>>,
                    <<"bestsellers", <<[title |-> <<"D">>, category |-> "bestsellers"],
                                       [title |-> <<"E">>, category |-> "bestsellers"],
                                       [title |-> <<"E">>, category |-> "bestsellers"]>>>> >>

MaxRunCalls == 2       \* run_scraper calls on one DataScraper
RunMaxPages == 1       \* max_pages argument of run_scraper: 0..RunMaxPages
MaxBooks == 41         \* records returned by a walk of full-size pages

site_name == "periplus"

category_params == [new_releases |-> "103", bestsellers |-> "104", featured |-> "105"]

\* the category names passed to run_scraper: a key of category_params and a
\* name that is not one
RunCategories == {"new_releases", "104"}

\* `x or default` for an Optional[int] x: None and 0 are falsy
OrDefault(x, default) == IF x = None THEN default ELSE IF x[1] = 0 THEN default ELSE x[1]

Min_max(a, b) == IF a >= b THEN a ELSE b

Min(a, b) == IF a <= b THEN a ELSE b

\* `(len(books) // 20) + 1 if books else 1`
PagesEstimate(n) == IF n > 0 THEN (n \div 20) + 1 ELSE 1

\* total_books=len(books)
TotalBooks_books_scraped(bs) == 0

TotalBooks(bs) == Len(bs)

\* success=len(books) > 0
Success_default(bs) == TRUE

Success(bs) == Len(bs) > 0

ScrapingResult(name, bs) ==
    [site_name |-> site_name,
     category |-> name,
     total_books |-> TotalBooks(bs),
     pages_scraped |-> Min(OrDefault(run_max_pages, scraper_config.max_pages), PagesEstimate(Len(bs))),
     books |-> bs,
     success |-> Success(bs),
     errors |-> errors]

File(ext, r, n) == [ext |-> ext, site_name |-> r.site_name, category |-> r.category, records |-> n]

\* _save_to_json: the report is always written
_save_to_json(r) == <<File("json", r, Len(r.books))>>

\* _save_to_csv: nothing is written when there are no books
_save_to_csv(r) == IF r.books = <<>> THEN <<>> ELSE <<File("csv", r, Len(r.books))>>

\* save_results: the files written for the configured output_format
save_results(r) ==
    (IF scraper_config.output_format \in {"json", "both"} THEN _save_to_json(r) ELSE <<>>)
        \o (IF scraper_config.output_format \in {"csv", "both"} THEN _save_to_csv(r) ELSE <<>>)

\* the call: the category parameter is looked up and scrape_category awaited
CallRunScraper ==
    /\ calls < MaxRunCalls
    /\ rpc \in {"idle", "returned"}
    /\ fpc = "idle" /\ wpc = "idle" /\ mpc = "idle"
    /\ calls' = calls + 1
    /\ \E name \in RunCategories, mp \in {None} \cup {Some(n) : n \in 0 .. RunMaxPages} :
        /\ run_category' = name
        /\ run_max_pages' = mp
        /\ WalkEnter(name, IF name \in DOMAIN category_params THEN category_params[name] ELSE name, mp)
    /\ rpc' = "walking"
    /\ result' = None
    /\ files_before' = Len(files)
    /\ run_errors_before' = Len(errors)
    /\ run_fetched' = 0
    /\ UNCHANGED <<files>>
    /\ UNCHANGED <<configVars, cliVars, errors, fetchVars, multiVars>>

\* scrape_category returned: the report is built, saved and returned
RunReturn ==
    /\ rpc = "walking" /\ wpc = "returned"
    /\ LET r == ScrapingResult(run_category, books) IN
        /\ result' = Some(r)
        /\ files' = files \o save_results(r)
    /\ run_fetched' = Len(SelectSeq(wtrace, LAMBDA e : e.ev = "fetch"))
    /\ WalkLeave
    /\ rpc' = "returned"
    /\ UNCHANGED <<run_category, run_max_pages, files_before, run_errors_before>>
    /\ UNCHANGED <<configVars, cliVars, errors, calls, fetchVars, multiVars>>

\* scrape_category raised: run_scraper has no handler, the exception leaves it
RunRaise ==
    /\ rpc = "walking" /\ wpc = "raised"
    /\ WalkLeave
    /\ rpc' = "raised"
    /\ run_fetched' = Len(SelectSeq(wtrace, LAMBDA e : e.ev = "fetch"))
    /\ UNCHANGED <<run_category, run_max_pages, result, files, files_before, run_errors_before>>
    /\ UNCHANGED <<configVars, cliVars, errors, calls, fetchVars, multiVars>>

InitRun ==
    /\ Constructed
    /\ cli_pc = "none" /\ args = NoArgs
    /\ scraper_config \in [max_pages : {2}, delay_between_requests : {0}, max_retries : {0},
                           timeout : {30}, output_format : {"json", "csv", "both"},
                           concurrent_requests : {5}]

NextRun ==
    \/ CallRunScraper \/ RunReturn \/ RunRaise
    \/ ScrapeCategoryFetch \/ ScrapeCategoryDone
    \/ ScrapeCategoryFetchFailed \/ ScrapeCategoryRaises \/ ScrapeCategoryPage
    \/ Fetch200 \/ Fetch429 \/ FetchOtherStatus \/ FetchException \/ FetchExhausted

SpecRun == InitRun /\ [][NextRun]_vars

(***************************************************************************)
(* The tail of run_scraper on its own: scrape_category has just returned n *)
(* records after fetching k pages (a page of the site holds about 20       *)
(* products, so n is not bounded by the small documents of Bodies).        *)
(***************************************************************************)
ABook == [title |-> <<"D">>, category |-> "new_releases"]

InitReport ==
    /\ errors = <<>>
    /\ calls = 1
    /\ cli_pc = "none" /\ args = NoArgs
    /\ fpc = "idle" /\ url = NoUrl /\ retries = 0 /\ attempt = 0
    /\ content = None /\ ftrace = <<>> /\ errors_before = 0
    /\ mpc = "idle" /\ categories = <<>> /\ multi_max_pages = None /\ task = 0
    /\ results = <<>> /\ mtrace = <<>>
    /\ scraper_config \in [max_pages : 1 .. MaxPages, delay_between_requests : {0}, max_retries : {0},
                           timeout : {30}, output_format : {"json", "csv", "both"},
                           concurrent_requests : {5}]
    /\ rpc = "walking" /\ run_category = "new_releases" /\ result = None
    /\ run_max_pages \in {None} \cup {Some(n) : n \in 0 .. MaxPages}
    /\ files = <<>> /\ files_before = 0 /\ run_errors_before = 0 /\ run_fetched = 0
    /\ wpc = "returned" /\ category_name = "new_releases" /\ category_param = "103"
    /\ max_pages = IF run_max_pages = None THEN scraper_config.max_pages ELSE run_max_pages[1]
    /\ \E n \in 0 .. MaxBooks, k \in 0 .. max_pages :
        /\ n > 0 => k > 0
        /\ books = [i \in 1 .. n |-> ABook]
        /\ wtrace = [i \in 1 .. k |-> WalkEvent("fetch", i, <<>>, <<>>)]
        /\ current_page = IF k = 0 THEN 1 ELSE k
        /\ gets = k

NextReport == RunReturn

SpecReport == InitReport /\ [][NextReport]_vars

(***************************************************************************)
(* Properties of run_scraper.                                              *)
(***************************************************************************)
\* the max_pages argument when given, otherwise scraper_config.max_pages
ConfiguredMax == IF run_max_pages = None THEN scraper_config.max_pages ELSE run_max_pages[1]

Ceil20(n) == (n + 19) \div 20

Largest(a, b) == IF a >= b THEN a ELSE b

Smallest(a, b) == IF a <= b THEN a ELSE b

\* C11: every ScrapingResult returned by run_scraper has total_books equal to
\* the length of its books sequence.
C11_TotalBooks ==
    result # None => result[1].total_books = Len(result[1].books)

C11_Witness ==
    /\ rpc = "returned"
    /\ result # None
    /\ result[1].total_books = 2
    /\ run_fetched = 2
    /\ Len(errors) > run_errors_before
    /\ errors[Len(errors)].kind = "fetch"

\* C12: the ScrapingResult that run_scraper returns has success exactly when
\* its books are non-empty; when the walk stopped on page 1 with a terminal
\* fetch failure or with a page that yielded no record, books is empty and
\* success is false.
C12_SuccessIffBooks ==
    [][(rpc = "walking" /\ rpc' = "returned") =>
        LET r == result'[1] IN
        /\ r.success <=> (r.books # <<>>)
        /\ (/\ wtrace # <<>>
            /\ wtrace[Len(wtrace)].page = 1
            /\ wtrace[Len(wtrace)].ev \in {"failed", "empty"})
           => (r.books = <<>> /\ ~r.success)]_vars

C12_Witness ==
    /\ rpc = "returned"
    /\ result # None
    /\ ~result[1].success
    /\ result[1].books = <<>>
    /\ run_fetched = 1
    /\ Len(errors) = run_errors_before

\* C13: for n records and a requested maximum m >= 1 the report has
\* pages_scraped = max(1, min(m, ceil(n / 20))).
C13_PagesScrapedCeil ==
    (rpc = "returned" /\ result # None /\ ConfiguredMax >= 1) =>
        result[1].pages_scraped =
            Largest(1, Smallest(ConfiguredMax, Ceil20(Len(result[1].books))))

\* C14: a ScrapingResult returned after at least one page fetch was attempted
\* has 1 <= pages_scraped <= the configured maximum number of pages.
C14_PagesScrapedRange ==
    (rpc = "returned" /\ result # None /\ run_fetched >= 1) =>
        /\ 1 <= result[1].pages_scraped
        /\ result[1].pages_scraped <= ConfiguredMax

C14_Witness ==
    /\ rpc = "returned"
    /\ result # None
    /\ run_fetched = 2
    /\ run_max_pages = None
    /\ scraper_config.max_pages = 2
    /\ Len(result[1].books) = 41
    /\ result[1].pages_scraped = 2

\* C15: a run_scraper call that has completed has returned a ScrapingResult
\* and has written at least one file, whatever the walk gave and for each of
\* the output formats json, csv and both.
C15_AlwaysWritesFile ==
    rpc = "returned" => (result # None /\ Len(files) > files_before)

\* C17: the errors of a returned ScrapingResult are exactly the entries that
\* were appended to the error list during that run_scraper call, in order;
\* entries of earlier calls on the same DataScraper are not among them.
C17_ErrorsOfThisRun ==
    (rpc = "returned" /\ result # None) =>
        result[1].errors = SubSeq(errors, run_errors_before + 1, Len(errors))

(***************************************************************************)
(* Properties of the error list and of the record extractor.               *)
(***************************************************************************)
IsPrefix(a, b) == Len(a) <= Len(b) /\ SubSeq(b, 1, Len(a)) = a

\* C16: every step of _fetch_page, _parse_book, scrape_category and
\* scrape_multiple_categories leaves the error list as it was or extends it:
\* the old list is a prefix of the new one.
C16_ErrorsOnlyGrow == [][IsPrefix(errors, errors')]_vars

C16_Witness ==
    /\ mpc = "returned"
    /\ Len(errors) = 2
    /\ errors[1].kind = "parse"
    /\ errors[2].kind = "fetch"

\* the step of scrape_category that parses a fetched page, and the page it parsed
ParsesPage == Len(wtrace') > Len(wtrace) /\ wtrace'[Len(wtrace) + 1].ev = "page"

ParsedPage == wtrace'[Len(wtrace) + 1]

\* a product container that passes the /p/ filter
IsCandidate(e) == e.tag = "product" /\ e.href # <<>> /\ e.href[1] = "p"

\* its title element is missing, or the title text is blank
TitleMissingOrBlank(e) == ~e.has_title \/ \A i \in 1 .. Len(e.title) : e.title[i] = " "

Raising(html) == SelectSeq(html, LAMBDA e : IsCandidate(e) /\ e.poison)

Emitting(html) == SelectSeq(html, LAMBDA e : IsCandidate(e) /\ ~e.poison /\ ~TitleMissingOrBlank(e))

\* C18: every Book that _parse_page emits, and every Book in the walk's
\* accumulator, has a non-empty title; a candidate whose title element is
\* missing or whose title is blank yields no Book, and the only entries a page
\* appends to the error list are those of its raising candidates.
C18_TitlesNonEmpty ==
    [][ParsesPage =>
        /\ \A i \in 1 .. Len(ParsedPage.books) : ParsedPage.books[i].title # <<>>
        /\ \A i \in 1 .. Len(books') : books'[i].title # <<>>
        /\ Len(ParsedPage.books) = Len(Emitting(ParsedPage.html))
        /\ Len(errors') = Len(errors) + Len(Raising(ParsedPage.html))]_vars

C18_Witness ==
    /\ Len(wtrace) > 1
    /\ wtrace[2].ev = "page"
    /\ wtrace[2].html = <<Blank, Dune, More>>
    /\ wtrace[2].books = <<[title |-> <<"D">>, category |-> "new_releases"]>>
    /\ errors = <<>>

\* C19: when a candidate of a page raises while it is parsed, _parse_page still
\* returns: the walk goes on, each raising candidate appends exactly one entry
\* to the error list and yields no Book, and the other candidates, later ones
\* included, yield their Books in document order.
C19_RaisingCandidateIsolated ==
    [][(ParsesPage /\ Raising(ParsedPage.html) # <<>>) =>
        /\ wpc' \in {"loop", "returned"}
        /\ Len(ParsedPage.books) = Len(Emitting(ParsedPage.html))
        /\ \A i \in 1 .. Len(ParsedPage.books) :
            ParsedPage.books[i].title = Strip(Emitting(ParsedPage.html)[i].title)
        /\ errors' = errors \o [i \in 1 .. Len(Raising(ParsedPage.html)) |-> ParseError]]_vars

C19_Witness ==
    /\ Len(wtrace) > 1
    /\ wtrace[2].ev = "page"
    /\ wtrace[2].html = <<Poison, Emma>>
    /\ wtrace[2].books = <<[title |-> <<"E">>, category |-> "new_releases"]>>
    /\ errors = <<ParseError>>
    /\ wpc = "returned"

(***************************************************************************)
(* main.py: create_custom_config builds the ScraperConfig from the parsed  *)
(* command line.  category_param, base_url and output_directory are not    *)
(* part of the modelled configuration.                                     *)
(***************************************************************************)
MaxArg == 2            \* numeric option values on the command line: 0..MaxArg

\* DEFAULT_CONFIG with no environment variable set
DEFAULT_CONFIG ==
    [max_pages |-> 5, delay_between_requests |-> 1, max_retries |-> 3,
     timeout |-> 30, output_format |-> "json", concurrent_requests |-> 5]

\* `a or default` for a number: 0 is falsy
OrNumber(a, default) == IF a = 0 THEN default ELSE a

\* `a or default` for a string: "" is falsy
OrString(a, default) == IF a = "" THEN default ELSE a

create_custom_config(a) ==
    [max_pages |-> OrNumber(a.max_pages, DEFAULT_CONFIG.max_pages),
     delay_between_requests |-> OrNumber(a.delay, DEFAULT_CONFIG.delay_between_requests),
     max_retries |-> OrNumber(a.retries, DEFAULT_CONFIG.max_retries),
     timeout |-> OrNumber(a.timeout, DEFAULT_CONFIG.timeout),
     output_format |-> OrString(a.output_format, DEFAULT_CONFIG.output_format),
     concurrent_requests |-> OrNumber(a.concurrent, DEFAULT_CONFIG.concurrent_requests)]

CreateCustomConfig ==
    /\ cli_pc = "parsed"
    /\ scraper_config' = create_custom_config(args)
    /\ cli_pc' = "configured"
    /\ UNCHANGED <<args, errors, calls, fetchVars, walkVars, multiVars, runVars>>

InitConfig ==
    /\ Constructed
    /\ cli_pc = "parsed"
    /\ args \in [max_pages : 0 .. MaxArg, delay : 0 .. MaxArg, retries : 0 .. MaxArg,
                 timeout : 0 .. MaxArg, concurrent : 0 .. MaxArg,
                 output_format : {"json", "csv", "both"}]
    /\ scraper_config = DEFAULT_CONFIG

NextConfig == CreateCustomConfig

SpecConfig == InitConfig /\ [][NextConfig]_vars

\* C20: the configuration built from the command line has, for --delay,
\* --retries, --max-pages, --timeout and --concurrent, exactly the value the
\* user passed, 0 included.
C20_OptionsMapOneToOne ==
    cli_pc = "configured" =>
        /\ scraper_config.delay_between_requests = args.delay
        /\ scraper_config.max_retries = args.retries
        /\ scraper_config.max_pages = args.max_pages
        /\ scraper_config.timeout = args.timeout
        /\ scraper_config.concurrent_requests = args.concurrent

(***************************************************************************)
(* Properties of the retry loop of _fetch_page.                            *)
(***************************************************************************)
RECURSIVE TotalSlept(_)
TotalSlept(tr) ==
    IF tr = <<>> THEN 0
    ELSE (IF Head(tr).ev = "sleep" THEN Head(tr).seconds ELSE 0) + TotalSlept(Tail(tr))

\* the request of attempt a is directly followed by a sleep of 2^a
SleepFollows(tr, i) ==
    /\ i < Len(tr)
    /\ tr[i + 1].ev = "sleep"
    /\ tr[i + 1].seconds = 2 ^ tr[i].attempt

\* the next request after the one at position i, if any, is attempt a + 1
NextAttemptFollows(tr, i) ==
    \A j \in i + 1 .. Len(tr) :
        (tr[j].ev = "get" /\ \A k \in i + 1 .. j - 1 : tr[k].ev # "get")
            => tr[j].attempt = tr[i].attempt + 1

\* C21: an attempt answered with a status other than 200 and 429 consumes one
\* attempt and, when it is not the final attempt, is directly followed by a
\* sleep of 2^attempt before the next request, as a transport error is.
C21_OtherStatusBacksOff ==
    \A i \in 1 .. Len(ftrace) :
        (ftrace[i].ev = "get" /\ ftrace[i].status \notin {200, 429, NoResponse}) =>
            /\ NextAttemptFollows(ftrace, i)
            /\ ftrace[i].attempt < retries => SleepFollows(ftrace, i)

\* the step of an attempt on which session.get or response.text() raised
AttemptRaised ==
    /\ fpc = "loop"
    /\ Len(ftrace') > Len(ftrace)
    /\ ftrace'[Len(ftrace) + 1].ev = "get"
    /\ ftrace'[Len(ftrace) + 1].status = NoResponse

\* C22: a transport failure on attempt a < retries is followed by a sleep of
\* exactly 2^a and then by attempt a + 1, and appends no error entry; on the
\* final attempt a = retries it is followed by no sleep, appends the failure
\* description to the error list, and no further attempt is made.
C22_TransportFailure ==
    [][AttemptRaised =>
        IF attempt < retries
        THEN /\ Len(ftrace') = Len(ftrace) + 2
             /\ ftrace'[Len(ftrace) + 1].attempt = attempt
             /\ ftrace'[Len(ftrace) + 2].ev = "sleep"
             /\ ftrace'[Len(ftrace) + 2].seconds = 2 ^ attempt
             /\ errors' = errors
             /\ fpc' = "loop" /\ attempt' = attempt + 1
        ELSE /\ Len(ftrace') = Len(ftrace) + 1
             /\ attempt = retries
             /\ Len(errors') = Len(errors) + 1
             /\ SubSeq(errors', 1, Len(errors)) = errors
             /\ errors'[Len(errors')].kind = "fetch"
             /\ errors'[Len(errors')].attempt = attempt + 1
             /\ errors'[Len(errors')].url = url
             /\ attempt' > retries']_vars

C22_Witness ==
    /\ fpc = "returned"
    /\ retries = 2
    /\ content = None
    /\ Len(ftrace) = 5
    /\ AllRaised(ftrace)
    /\ ftrace[2].ev = "sleep" /\ ftrace[2].seconds = 1
    /\ ftrace[4].ev = "sleep" /\ ftrace[4].seconds = 2
    /\ Len(errors) = errors_before + 1

\* C23: an attempt a answered with 429 is directly followed by a sleep of 2^a
\* and then, while attempts remain, by attempt a + 1; 429 answers and transport
\* failures count on the same attempt counter, so one call makes at most
\* retries + 1 attempts and sleeps at most 2^(retries + 1) - 1 in total.
C23_RateLimitBackoff ==
    fpc # "idle" =>
        /\ \A i \in 1 .. Len(ftrace) :
            (ftrace[i].ev = "get" /\ ftrace[i].status = 429) =>
                /\ SleepFollows(ftrace, i)
                /\ NextAttemptFollows(ftrace, i)
                /\ (fpc = "returned" /\ ftrace[i].attempt < retries) => i + 2 <= Len(ftrace)
        /\ Len(Gets(ftrace)) <= retries + 1
        /\ TotalSlept(ftrace) <= 2 ^ (retries + 1) - 1

C23_Witness ==
    /\ fpc = "returned"
    /\ retries = 2
    /\ Statuses(ftrace) = {429, NoResponse}
    /\ Len(Gets(ftrace)) = 3
    /\ TotalSlept(ftrace) = 7

(***************************************************************************)
(* Properties of the page loop of scrape_category.                         *)
(***************************************************************************)
\* C24: with a delay configured, every delay taken by a walk is followed by a
\* further page fetch: a delay is never the last thing a walk does, also when
\* the page counter has just passed max_pages.
C24_DelayOnlyBeforeFetch ==
    \A i \in 1 .. Len(wtrace) :
        wtrace[i].ev = "delay" =>
            IF i < Len(wtrace)
            THEN wtrace[i + 1].ev = "fetch"
            ELSE wpc = "loop" /\ current_page <= max_pages

\* the URL of page k of a category: route and anl, and page=k when k > 1
PageUrl(param, k) ==
    [base |-> <<"https:", "www.periplus.com", "index.php">>,
     query |-> IF k > 1
               THEN << <<"route", "product/category">>, <<"anl", param>>, <<"page", str(k)>> >>
               ELSE << <<"route", "product/category">>, <<"anl", param>> >>]

\* C26: the URL being fetched for page k is the one built from the category
\* parameter and k alone, whatever next-page locator page k - 1 held; the
\* locator's target is not what is fetched.
C26_UrlFromPageCounter ==
    wpc = "fetching" =>
        /\ url = PageUrl(category_param, current_page)
        /\ Len(FetchedPages(wtrace)) = current_page
        /\ \A i \in 1 .. Len(wtrace) :
            (wtrace[i].ev = "page" /\ HasNextLocator(wtrace[i].html)) =>
                \A j \in 1 .. Len(wtrace[i].html) :
                    wtrace[i].html[j].tag = "next" =>
                        url.base # <<"https:", "www.periplus.com">> \o wtrace[i].html[j].href

C26_Witness ==
    /\ wpc = "fetching"
    /\ category_param = "104"
    /\ current_page = 2
    /\ url.query = << <<"route", "product/category">>, <<"anl", "104">>, <<"page", <<2>> >> >>
    /\ Len(wtrace) > 1
    /\ wtrace[2].ev = "page"
    /\ HasNextLocator(wtrace[2].html)

\* _fetch_page has returned the empty document of a 200 answer to the walk
BlankReturned == wpc = "fetching" /\ fpc = "returned" /\ content = Some(<<>>)

\* C27: a page answered with 200 and an empty body stops the walk at that page
\* as a failed fetch does: the walk returns the records it had, no error entry
\* is appended, and the report of a walk stopped so on page 1 has success false
\* with no error for that page.
C27_BlankBodyStopsWalk ==
    [][/\ BlankReturned =>
            /\ wpc' = "returned"
            /\ books' = books
            /\ current_page' = current_page
            /\ errors' = errors
            /\ Len(FetchedPages(wtrace')) = current_page
       /\ (/\ rpc = "walking" /\ rpc' = "returned"
           /\ wtrace # <<>>
           /\ wtrace[Len(wtrace)].ev = "blank"
           /\ wtrace[Len(wtrace)].page = 1) =>
            /\ ~result'[1].success
            /\ result'[1].books = <<>>
            /\ Len(result'[1].errors) = run_errors_before]_vars

C27_Witness ==
    /\ rpc = "walking"
    /\ wpc = "returned"
    /\ wtrace = <<WalkEvent("fetch", 1, <<>>, <<>>), WalkEvent("blank", 1, <<>>, <<>>)>>
    /\ books = <<>>
    /\ errors = <<>>

(***************************************************************************)
(* Termination of scrape_category.  Every HTTP attempt returns or times    *)
(* out and the event loop resumes a coroutine that can run, so a step of   *)
(* the walk or of its fetch that is enabled is eventually taken.           *)
(***************************************************************************)
WalkStep ==
    \/ ScrapeCategoryFetch \/ ScrapeCategoryDone
    \/ ScrapeCategoryFetchFailed \/ ScrapeCategoryRaises \/ ScrapeCategoryPage
    \/ Fetch200 \/ Fetch429 \/ FetchOtherStatus \/ FetchException \/ FetchExhausted

SpecWalkFair == InitWalk /\ [][NextWalk]_vars /\ WF_vars(WalkStep)

\* the HTTP attempts of the walk so far: those of the fetches it has consumed
\* and those of the fetch it is awaiting
AttemptsMade == gets + Len(Gets(ftrace))

\* C25: every scrape_category call that has started reaches its stopped state
\* (returned or raised); up to then it has made at most max_pages page fetches
\* and at most max_pages * (max_retries + 1) HTTP attempts, whatever the
\* answers were, and none at all when max_pages <= 0.
C25_WalkTerminates ==
    /\ [](wpc # "idle" =>
            LET allowed == IF max_pages > 0 THEN max_pages ELSE 0 IN
            /\ Len(FetchedPages(wtrace)) <= allowed
            /\ AttemptsMade <= allowed * (scraper_config.max_retries + 1)
            /\ max_pages <= 0 => (wtrace = <<>> /\ ftrace = <<>> /\ fpc = "idle"))
    /\ (wpc \in {"loop", "fetching"}) ~> (wpc \in {"returned", "raised"})

C25_Witness ==
    /\ wpc = "returned"
    /\ max_pages = 3
    /\ scraper_config.max_retries = 1
    /\ Len(FetchedPages(wtrace)) = 3
    /\ gets = 6

====
